---- MODULE Spec2Model ----
(***************************************************************************)
(* The TCP reply engine of masscanned (src/layer_4/tcp.rs, fn repl).       *)
(*                                                                         *)
(* A u32 is a pair <<hi, lo>> of 16-bit halves, so that sequence numbers   *)
(* keep their 32-bit width (0xFFFFFFFF is <<65535, 65535>>).               *)
(* An Option is None (the empty tuple) or Some(x) (the 1-tuple of x); a    *)
(* Result is [ok |-> TRUE, val |-> x] or Err.                              *)
(* TCP flags are the set of the flag names that are set: a mask test       *)
(* flags & M == M is M \subseteq flags, and flags == M is flags = M.       *)
(***************************************************************************)
EXTENDS Integers, Sequences, FiniteSets

VARIABLES
    overflow_checks,  \* build profile: does u32 `+` panic on overflow (debug) or wrap (release)
    masscanned,       \* the Responder Identity; only synack_key is read by repl
    tcp_req,          \* the inbound segment handed to repl
    client_info,      \* the Connection Identity Record (before the call while pc = "received", after it otherwise)
    pc,               \* "received": tcp_req awaits repl; "replied": repl has returned (or panicked)
    ret,              \* what the call did: "Some", "None" or "panic"
    tcp_repl,         \* the outbound segment when ret = "Some", NoPacket otherwise
    branch,           \* the match arm taken by the call
    dispatched,       \* whether proto::repl was invoked by the call
    proto_ret,        \* what proto::repl returned when it was invoked
    flag_writes,      \* the values passed to tcp_repl.set_flags, in call order
    handshake,        \* what a client that completed SYN / SYN-ACK remembers: its S and the token T
    record_in,        \* the record as the caller handed it to the call
    first,            \* history: the first call of the run and what it did
    seen,             \* history: the source ports whose SYN was processed / answered by a SYN-ACK
    workers           \* the parallel workers of the concurrent specification, each with its own call

vars == <<overflow_checks, masscanned, tcp_req, client_info, pc, ret, tcp_repl,
          branch, dispatched, proto_ret, flag_writes, handshake, record_in, first, seen,
          workers>>

-----------------------------------------------------------------------------
(* Option, Result *)

None == <<>>
Some(x) == <<x>>
unwrap(o) == o[1]

-----------------------------------------------------------------------------
(* u32 arithmetic on <<hi, lo>> *)

Two16 == 2^16

U32Max == <<Two16 - 1, Two16 - 1>>
U32Zero == <<0, 0>>

\* a + n without the width: <<carry out of bit 31, hi, lo>>
WideAdd(a, n) ==
    LET lo == a[2] + n
        hi == a[1] + (lo \div Two16)
    IN  <<hi \div Two16, hi % Two16, lo % Two16>>

wrapping_add(a, n) == <<WideAdd(a, n)[2], WideAdd(a, n)[3]>>

add_overflows(a, n) == WideAdd(a, n)[1] > 0

\* a - 1 for a > 0
sub_one(a) == IF a[2] > 0 THEN <<a[1], a[2] - 1>> ELSE <<a[1] - 1, Two16 - 1>>

-----------------------------------------------------------------------------
(* Bounds and input alphabets *)

MaxPayloadLen == 2

PayloadByte == {65}

RECURSIVE SeqsUpTo(_, _)
SeqsUpTo(S, n) ==
    IF n = 0 THEN {<<>>}
    ELSE LET shorter == SeqsUpTo(S, n - 1)
         IN  shorter \cup {Append(s, b) : s \in {t \in shorter : Len(t) = n - 1}, b \in S}

Payloads == SeqsUpTo(PayloadByte, MaxPayloadLen)

TcpFlagNames == {"FIN", "SYN", "RST", "PSH", "ACK", "URG"}

SrcPorts == {65000, 65001}
DstPorts == {80}

\* ports a caller may have left in the record, and ports an upper layer may redirect to
StalePorts == [src |-> Some(4444), dst |-> Some(5555)]
RedirectPorts == [src |-> Some(3478), dst |-> Some(3479)]

Keys == {<<1001, 2002>>}

\* network addresses: IP version and an address number
V4Src == [ver |-> 4, addr |-> 64454]
V4Dst == [ver |-> 4, addr |-> 64069]
V6Src == [ver |-> 6, addr |-> 234]
V6Dst == [ver |-> 6, addr |-> 25]

WellFormedIps == {[src |-> Some(V4Src), dst |-> Some(V4Dst)],
                  [src |-> Some(V6Src), dst |-> Some(V6Dst)]}

MalformedIps == {[src |-> None, dst |-> None],
                 [src |-> Some(V4Src), dst |-> Some(V6Dst)]}

-----------------------------------------------------------------------------
(* The external collaborators, as the interface of spec section 6 gives them *)

Err == [ok |-> FALSE, val |-> U32Zero]
Ok(x) == [ok |-> TRUE, val |-> x]

\* synackcookie::generate(client_info, key) -> token_or_failure: a deterministic keyed
\* function of the addresses and ports of the record; it fails on a record whose
\* addresses or ports are missing or of two IP versions.
generate(ci, key) ==
    IF ci.ip.src = None \/ ci.ip.dst = None \/ ci.port.src = None \/ ci.port.dst = None
    THEN Err
    ELSE IF unwrap(ci.ip.src).ver # unwrap(ci.ip.dst).ver
    THEN Err
    ELSE Ok(wrapping_add(<<(key[1] + unwrap(ci.ip.src).addr + unwrap(ci.port.dst)) % Two16,
                           (key[2] + unwrap(ci.ip.dst).addr) % Two16>>,
                         unwrap(ci.port.src)))

\* synackcookie::_check(client_info, seq, key)
check(ci, seq, key) == generate(ci, key) = Ok(seq)

\* proto::repl(payload, masscanned, client_info) -> optional bytes; it may rewrite the
\* ports of the record. An outcome d is what one invocation does.
Responses == {<<>>, <<72, 73>>}

ProtoOutcomes == [ret : {None} \cup {Some(r) : r \in Responses},
                  port : {None, Some(RedirectPorts)}]

proto_repl(payload, ci, d) ==
    [ret |-> d.ret,
     client_info |-> IF d.port = None THEN ci ELSE [ci EXCEPT !.port = unwrap(d.port)]]

-----------------------------------------------------------------------------
(* fn repl, tcp.rs *)

DataOffset == 5
Window == 65535

\* the ports filled only into a record that has none
fill_ports_if_missing(ci, req) ==
    IF ci.port.src = None /\ ci.port.dst = None
    THEN [ci EXCEPT !.port = [src |-> Some(req.source), dst |-> Some(req.destination)]]
    ELSE ci

\* lines 36-37
fill_ports(ci, req) ==
    [ci EXCEPT !.port = [src |-> Some(req.source), dst |-> Some(req.destination)]]

\* the data arm taken on ACK alone (the PSH bit left out of the mask)
is_psh_ack_ack_only(flags) == "ACK" \in flags

\* line 42: flags & (PSH | ACK) == (PSH | ACK)
is_psh_ack(flags) == {"PSH", "ACK"} \subseteq flags

\* line 77: flags == ACK
is_ack(flags) == flags = {"ACK"}

\* line 82: flags == RST || flags == (FIN | ACK)
is_teardown(flags) == flags = {"RST"} \/ flags = {"FIN", "ACK"}

\* the handshake arm taken for a FIN as well
is_syn_or_fin(flags) == "SYN" \in flags \/ "FIN" \in flags

\* line 86: flags & SYN == SYN
is_syn(flags) == "SYN" \in flags

\* lines 40-101: the match arm, first match wins
classify(flags) ==
    IF is_psh_ack(flags) THEN "data"
    ELSE IF is_ack(flags) THEN "ack"
    ELSE IF is_teardown(flags) THEN "teardown"
    ELSE IF is_syn(flags) THEN "syn"
    ELSE "unhandled"

\* the subtraction saturating at 0 instead of wrapping to 0xFFFFFFFF
ackno_saturating(acknowledgement) ==
    IF acknowledgement # U32Zero THEN sub_one(acknowledgement) ELSE U32Zero

\* lines 44-49
ackno(acknowledgement) ==
    IF acknowledgement # U32Zero THEN sub_one(acknowledgement) ELSE U32Max

\* the early return on an invalid cookie left out
cookie_rejected_never(gen, expected) == FALSE

\* a stateful stack: data is refused until a SYN-ACK was issued
cookie_rejected_unless_synacked(gen, expected) ==
    gen.ok /\ (gen.val # expected \/ seen.synack = {})

\* lines 51-55: the segment is rejected when a cookie was generated and differs
cookie_rejected(gen, expected) == gen.ok /\ gen.val # expected

\* line 56
store_cookie(ci, gen) == IF gen.ok THEN [ci EXCEPT !.cookie = Some(gen.val)] ELSE ci

\* ACK|PSH set whether or not the upper layer answered
data_flags_always_psh(pr) == {"ACK", "PSH"}

\* lines 61-72: the flags and payload of the data reply
data_flags(pr) == IF pr # None THEN {"ACK", "PSH"} ELSE {"ACK"}

\* an empty answer of the upper layer padded with one byte
data_payload_padded(pr) == IF pr # None THEN unwrap(pr) ELSE <<0>>

data_payload(pr) == IF pr # None THEN unwrap(pr) ELSE <<>>

\* line 73: get_sequence() + payload().len(); line 91: get_sequence() + 1
\* u32 `+`: panics on overflow when the build checks overflow, wraps otherwise
add_panics(a, n, checks) == checks /\ add_overflows(a, n)

data_acknowledgement(req) == wrapping_add(req.sequence, Len(req.payload))

\* the reply sequence taken from the decremented acknowledgement number
data_sequence_decremented(req) == ackno(req.acknowledgement)

\* line 74
data_sequence(req) == req.acknowledgement

\* lines 89-90
syn_flag_writes == <<{"ACK"}, {"SYN", "ACK"}>>

\* line 91
syn_acknowledgement(req) == wrapping_add(req.sequence, 1)

\* lines 62-72 and 87: a zeroed minimum-size header, followed by the payload
new_packet(payload) ==
    [source |-> 0, destination |-> 0, sequence |-> U32Zero, acknowledgement |-> U32Zero,
     data_offset |-> 0, flags |-> {}, window |-> 0, payload |-> payload]

\* the flags left by a sequence of set_flags calls on a zeroed header
last_flags(writes) == IF writes = <<>> THEN {} ELSE writes[Len(writes)]

\* the reply source port taken from the inbound header instead of the record
reply_source_from_header(req, ci) == req.destination

\* lines 105-106
reply_source(req, ci) == unwrap(ci.port.dst)

reply_destination(req, ci) == unwrap(ci.port.src)

\* the header left as the zeroed buffer has it: data offset and window not set
finalize_ports_only(pkt, req, ci) ==
    [pkt EXCEPT !.source = reply_source(req, ci),
                !.destination = reply_destination(req, ci)]

\* lines 105-109
finalize(pkt, req, ci) ==
    [pkt EXCEPT !.source = reply_source(req, ci),
                !.destination = reply_destination(req, ci),
                !.data_offset = DataOffset,
                !.window = Window]

\* the handshake branch storing the token it minted in the record
OutcomeStoringToken(r, pkt, ci, b, disp, pr, writes) ==
    [ret |-> r, tcp_repl |-> pkt,
     client_info |-> IF b = "syn" /\ pkt # None
                     THEN [ci EXCEPT !.cookie = Some(unwrap(pkt).sequence)] ELSE ci,
     branch |-> b, dispatched |-> disp, proto_ret |-> pr, flag_writes |-> writes]

\* what a call leaves behind
Outcome(r, pkt, ci, b, disp, pr, writes) ==
    [ret |-> r, tcp_repl |-> pkt, client_info |-> ci, branch |-> b,
     dispatched |-> disp, proto_ret |-> pr, flag_writes |-> writes]

\* lines 42-75
repl_data(req, m, ci, d, checks) ==
    LET expected == ackno(req.acknowledgement)
        gen == generate(ci, m.synack_key)
        ci2 == store_cookie(ci, gen)
        up == proto_repl(req.payload, ci2, d)
        writes == <<data_flags(up.ret)>>
        pkt == [new_packet(data_payload(up.ret)) EXCEPT
                   !.flags = last_flags(writes),
                   !.acknowledgement = data_acknowledgement(req),
                   !.sequence = data_sequence(req)]
    IN  IF cookie_rejected(gen, expected)
        THEN Outcome("None", None, ci, "data", FALSE, None, <<>>)
        ELSE IF add_panics(req.sequence, Len(req.payload), checks)
        THEN Outcome("panic", None, up.client_info, "data", TRUE, up.ret, writes)
        ELSE Outcome("Some", Some(finalize(pkt, req, up.client_info)), up.client_info,
                     "data", TRUE, up.ret, writes)

\* the token taken with a default instead of unwrap
unwrap_panics_never(gen) == FALSE

\* line 94: unwrap() on the generated token
unwrap_panics(gen) == ~gen.ok

\* lines 86-97
repl_syn(req, m, ci, checks) ==
    LET gen == generate(ci, m.synack_key)
        pkt == [new_packet(<<>>) EXCEPT
                   !.flags = last_flags(syn_flag_writes),
                   !.acknowledgement = syn_acknowledgement(req),
                   !.sequence = gen.val]
    IN  IF add_panics(req.sequence, 1, checks)
        THEN Outcome("panic", None, ci, "syn", FALSE, None, syn_flag_writes)
        ELSE IF unwrap_panics(gen)
        THEN Outcome("panic", None, ci, "syn", FALSE, None, syn_flag_writes)
        ELSE Outcome("Some", Some(finalize(pkt, req, ci)), ci, "syn", FALSE, None,
                     syn_flag_writes)

\* lines 29-112
repl(req, m, ci0, d, checks) ==
    LET ci == fill_ports(ci0, req)
        b == classify(req.flags)
    IN  CASE b = "data" -> repl_data(req, m, ci, d, checks)
          [] b = "syn" -> repl_syn(req, m, ci, checks)
          [] OTHER -> Outcome("None", None, ci, b, FALSE, None, <<>>)

-----------------------------------------------------------------------------
(* The packets the lower layer delivers *)

Flags == SUBSET TcpFlagNames

SeqVals == {U32Zero, <<1, Two16 - 1>>, U32Max}

FreshPorts == [src |-> None, dst |-> None]

\* the record the caller builds for a packet: addresses from the IP header, no cookie
Record(ip, port) == [ip |-> ip, port |-> port, cookie |-> None]

\* the tokens of the connections of the model; the acknowledgement numbers are 0 and
\* every token + 1, each the valid one of one connection and an invalid one of the others
Tokens ==
    {generate(Record(i, [src |-> Some(s), dst |-> Some(p)]), k).val :
        i \in WellFormedIps, s \in SrcPorts, p \in DstPorts, k \in Keys}

AckVals == {U32Zero} \cup {wrapping_add(t, 1) : t \in Tokens}

Segments ==
    [source : SrcPorts, destination : DstPorts, sequence : SeqVals,
     acknowledgement : AckVals, flags : Flags, payload : Payloads]

Records(ips) == {Record(i, p) : i \in ips, p \in {FreshPorts, StalePorts}}

Idle == "-"

NoWorkers == <<>>

InitWith(segments, ips) ==
    /\ overflow_checks \in BOOLEAN
    /\ masscanned \in [synack_key : Keys]
    /\ tcp_req \in segments
    /\ client_info \in Records(ips)
    /\ record_in = client_info
    /\ first = None
    /\ seen = [syn |-> {}, synack |-> {}]
    /\ workers = NoWorkers
    /\ pc = "received"
    /\ ret = Idle
    /\ tcp_repl = None
    /\ branch = Idle
    /\ dispatched = FALSE
    /\ proto_ret = None
    /\ flag_writes = <<>>
    /\ handshake = None

InitOver(ips) == InitWith(Segments, ips)

\* by the time repl runs the network addresses are present (spec section 3)
Init == InitOver(WellFormedIps)

\* history: a call and its outcome
CallLog(req, ci, o) ==
    [req |-> req, record_in |-> ci, ret |-> o.ret, tcp_repl |-> o.tcp_repl,
     client_info |-> o.client_info, branch |-> o.branch, dispatched |-> o.dispatched,
     proto_ret |-> o.proto_ret]

\* history: the source ports whose SYN reached the handshake branch, and those answered
SeenAfter(sn, req, o) ==
    [syn |-> IF o.branch = "syn" THEN sn.syn \cup {req.source} ELSE sn.syn,
     synack |-> IF o.branch = "syn" /\ o.ret = "Some"
                THEN sn.synack \cup {req.source} ELSE sn.synack]

\* one call of repl on the delivered segment; the upper layer's outcome is its own choice
Repl ==
    /\ pc = "received"
    /\ \E d \in ProtoOutcomes :
          \E o \in {repl(tcp_req, masscanned, client_info, d, overflow_checks)} :
              /\ client_info' = o.client_info
              /\ ret' = o.ret
              /\ tcp_repl' = o.tcp_repl
              /\ branch' = o.branch
              /\ dispatched' = o.dispatched
              /\ proto_ret' = o.proto_ret
              /\ flag_writes' = o.flag_writes
              /\ first' = IF first = None THEN Some(CallLog(tcp_req, client_info, o)) ELSE first
              /\ seen' = SeenAfter(seen, tcp_req, o)
    /\ record_in' = client_info
    /\ pc' = "replied"
    /\ UNCHANGED <<overflow_checks, masscanned, tcp_req, handshake, workers>>

\* the next packet comes with a record of its own
Deliver(req, ip) ==
    /\ tcp_req' = req
    /\ client_info' = Record(ip, FreshPorts)
    /\ pc' = "received"
    /\ ret' = Idle
    /\ tcp_repl' = None
    /\ branch' = Idle
    /\ dispatched' = FALSE
    /\ proto_ret' = None
    /\ flag_writes' = <<>>
    /\ record_in' = Record(ip, FreshPorts)
    /\ UNCHANGED <<overflow_checks, masscanned, first, seen, workers>>

\* the peer sends the identical segment again
Retransmit ==
    /\ pc = "replied"
    /\ Deliver(tcp_req, client_info.ip)
    /\ UNCHANGED handshake

\* a client whose SYN (sequence S) was answered by a SYN-ACK (sequence T) sends data:
\* PSH+ACK, sequence S+1, acknowledgement T+1, on the same connection
ClientData ==
    /\ pc = "replied"
    /\ ret = "Some"
    /\ branch = "syn"
    /\ handshake = None
    /\ \E payload \in Payloads :
          Deliver([source |-> tcp_req.source,
                   destination |-> tcp_req.destination,
                   sequence |-> wrapping_add(tcp_req.sequence, 1),
                   acknowledgement |-> wrapping_add(unwrap(tcp_repl).sequence, 1),
                   flags |-> {"PSH", "ACK"},
                   payload |-> payload],
                  client_info.ip)
    /\ handshake' = Some([S |-> tcp_req.sequence, T |-> unwrap(tcp_repl).sequence])

Next == Repl \/ Retransmit \/ ClientData

Spec == Init /\ [][Next]_vars

\* the same engine handed records on which token generation fails as well: the
\* internal invariant violation of spec section 7
InitFault == InitOver(WellFormedIps \cup MalformedIps)

SpecFault == InitFault /\ [][Next]_vars

\* segments in any order: after any call, any segment of a small alphabet (a SYN, a
\* data segment, a reset; either connection; every acknowledgement number) arrives next
ProbeFlags == {{"SYN"}, {"PSH", "ACK"}, {"RST"}}

ProbeSegments ==
    {req \in Segments : /\ req.flags \in ProbeFlags
                        /\ req.sequence = U32Zero
                        /\ Len(req.payload) = 1}

Probe ==
    /\ pc = "replied"
    /\ \E req \in ProbeSegments : Deliver(req, client_info.ip)
    /\ UNCHANGED handshake

NextHist == Repl \/ Probe

InitHist == InitWith(ProbeSegments, WellFormedIps)

SpecHist == InitHist /\ [][NextHist]_vars

-----------------------------------------------------------------------------
(* Parallel workers: each processes one segment with a record of its own, all read the
   one responder identity. A call is cut at the points where it reads the identity or
   calls a collaborator. *)

NumWorkers == 2

WorkerIds == 1 .. NumWorkers

\* one peer whose addresses are well formed and one on whose record generation fails
ConcIps == {[src |-> Some(V4Src), dst |-> Some(V4Dst)],
            [src |-> Some(V4Src), dst |-> Some(V6Dst)]}

\* the acknowledgement numbers that are valid for a connection of the well-formed peer
ConcAcks ==
    {wrapping_add(generate(Record(i, [src |-> Some(s), dst |-> Some(p)]), k).val, 1) :
        i \in ConcIps \cap WellFormedIps, s \in SrcPorts, p \in DstPorts, k \in Keys}

\* the SYN or a data segment of the connection from port 65000 of either peer
ConcSegments ==
    {req \in ProbeSegments : /\ req.flags \in {{"SYN"}, {"PSH", "ACK"}}
                             /\ req.source = 65000
                             /\ req.acknowledgement \in ConcAcks
                             /\ req.flags = {"SYN"} => req.acknowledgement = U32Zero}

NoOutcome == [ret |-> None, port |-> None]

NewWorker(req, ci) ==
    [pc |-> "start", req |-> req, record_in |-> ci, client_info |-> ci, branch |-> Idle,
     dispatched |-> FALSE, d |-> NoOutcome, ret |-> Idle, tcp_repl |-> None,
     overlapped |-> FALSE]

\* the record a call works on: the one it was handed (line 32, &mut ClientInfo)
worker_record(ws, w) == ws[w].client_info

\* one record written by all workers: a step of w lands in the record of every worker
StepSharedRecord(w, nw) ==
    /\ workers' = [v \in WorkerIds |->
                      IF v = w THEN nw
                      ELSE [workers[v] EXCEPT !.client_info = nw.client_info]]
    /\ UNCHANGED <<overflow_checks, masscanned, tcp_req, client_info, pc, ret, tcp_repl,
                   branch, dispatched, proto_ret, flag_writes, handshake, record_in,
                   first, seen>>

\* a step of worker w leaving it as nw (line 32: the record is the call's alone, the
\* identity is only read); it overlaps a call that another worker is in
Step(w, nw) ==
    /\ workers' = [workers EXCEPT ![w] =
           [nw EXCEPT !.overlapped =
               workers[w].overlapped
               \/ \E v \in WorkerIds \ {w} : workers[v].pc \notin {"start", "done"}]]
    /\ UNCHANGED <<overflow_checks, masscanned, tcp_req, client_info, pc, ret, tcp_repl,
                   branch, dispatched, proto_ret, flag_writes, handshake, record_in,
                   first, seen>>

Done(wk, r, pkt) == [wk EXCEPT !.pc = "done", !.ret = r, !.tcp_repl = pkt]

\* lines 36-37
WFill(w) ==
    /\ workers[w].pc = "start"
    /\ Step(w, [workers[w] EXCEPT
                   !.client_info = fill_ports(worker_record(workers, w), workers[w].req),
                   !.pc = "match"])

\* lines 40-57 and 77-101: the match; the data arm reads the key and checks the cookie
WMatch(w) ==
    /\ workers[w].pc = "match"
    /\ LET wk == workers[w]
           b == classify(wk.req.flags)
           gen == generate(worker_record(workers, w), masscanned.synack_key)
           wb == [wk EXCEPT !.branch = b]
       IN  Step(w, CASE b = "data" ->
                          IF cookie_rejected(gen, ackno(wk.req.acknowledgement))
                          THEN Done(wb, "None", None)
                          ELSE [wb EXCEPT
                                  !.client_info = store_cookie(worker_record(workers, w), gen),
                                  !.pc = "dispatch"]
                     [] b = "syn" -> [wb EXCEPT !.pc = "synack"]
                     [] OTHER -> Done(wb, "None", None))

\* lines 59-76 and 104-111: the upper layer is asked and the data reply built
WDispatch(w) ==
    /\ workers[w].pc = "dispatch"
    /\ \E d \in ProtoOutcomes :
          LET wk == workers[w]
              up == proto_repl(wk.req.payload, worker_record(workers, w), d)
              pkt == [new_packet(data_payload(up.ret)) EXCEPT
                         !.flags = data_flags(up.ret),
                         !.acknowledgement = data_acknowledgement(wk.req),
                         !.sequence = data_sequence(wk.req)]
              wd == [wk EXCEPT !.client_info = up.client_info, !.dispatched = TRUE, !.d = d]
          IN  Step(w, IF add_panics(wk.req.sequence, Len(wk.req.payload), overflow_checks)
                      THEN Done(wd, "panic", None)
                      ELSE Done(wd, "Some", Some(finalize(pkt, wk.req, up.client_info))))

\* lines 86-97 and 104-111: the key is read and the SYN-ACK built
WSynAck(w) ==
    /\ workers[w].pc = "synack"
    /\ LET wk == workers[w]
           gen == generate(worker_record(workers, w), masscanned.synack_key)
           pkt == [new_packet(<<>>) EXCEPT
                      !.flags = last_flags(syn_flag_writes),
                      !.acknowledgement = syn_acknowledgement(wk.req),
                      !.sequence = gen.val]
       IN  Step(w, IF add_panics(wk.req.sequence, 1, overflow_checks) \/ unwrap_panics(gen)
                   THEN Done(wk, "panic", None)
                   ELSE Done(wk, "Some", Some(finalize(pkt, wk.req, worker_record(workers, w)))))

NextConc == \E w \in WorkerIds : WFill(w) \/ WMatch(w) \/ WDispatch(w) \/ WSynAck(w)

\* the segments of the workers start at sequence number 0: no addition overflows and
\* the two builds behave alike
InitConc ==
    /\ overflow_checks = TRUE
    /\ masscanned \in [synack_key : Keys]
    /\ workers \in [WorkerIds -> {NewWorker(req, Record(i, FreshPorts)) :
                                     req \in ConcSegments, i \in ConcIps}]
    /\ tcp_req = workers[1].req
    /\ client_info = workers[1].record_in
    /\ record_in = client_info
    /\ first = None
    /\ seen = [syn |-> {}, synack |-> {}]
    /\ pc = Idle
    /\ ret = Idle
    /\ tcp_repl = None
    /\ branch = Idle
    /\ dispatched = FALSE
    /\ proto_ret = None
    /\ flag_writes = <<>>
    /\ handshake = None

SpecConc == InitConc /\ [][NextConc]_vars

-----------------------------------------------------------------------------
(* What the properties speak of *)

Replied == pc = "replied"

\* the inbound segment has PSH and ACK both set
PshAckSet == "PSH" \in tcp_req.flags /\ "ACK" \in tcp_req.flags

\* the record as the token service sees it: the addresses of the packet and the ports
\* of the inbound segment
CallRecord ==
    [ip |-> client_info.ip,
     port |-> [src |-> Some(tcp_req.source), dst |-> Some(tcp_req.destination)],
     cookie |-> None]

Token == generate(CallRecord, masscanned.synack_key)

\* ack - 1 if ack > 0, else 0xFFFFFFFF
ExpectedToken ==
    IF tcp_req.acknowledgement = <<0, 0>>
    THEN <<Two16 - 1, Two16 - 1>>
    ELSE sub_one(tcp_req.acknowledgement)

\* C1: a PSH+ACK segment whose recomputed token differs from the expected value gets
\* no outbound segment, and the upper-layer dispatcher is not invoked for it.
C1_MismatchRejected ==
    (Replied /\ PshAckSet /\ Token # Ok(ExpectedToken))
        => (ret = "None" /\ tcp_repl = None /\ ~dispatched)

\* C1 witness: the acknowledgement number is the token itself (not token + 1), and the
\* segment was dropped.
C1_Witness ==
    /\ Replied
    /\ PshAckSet
    /\ Token.ok
    /\ tcp_req.acknowledgement = Token.val
    /\ ret = "None"

\* C2: every segment of the handshake branch is answered by a segment with flags
\* exactly {SYN, ACK} whose sequence number is the token of the record carrying the
\* segment's ports, for IPv4 and IPv6, and that sequence number passes check.
C2_SynAnswered ==
    (Replied /\ branch = "syn")
        => /\ ret = "Some"
           /\ tcp_repl # None
           /\ unwrap(tcp_repl).flags = {"SYN", "ACK"}
           /\ Ok(unwrap(tcp_repl).sequence) = Token
           /\ check(CallRecord, unwrap(tcp_repl).sequence, masscanned.synack_key)

\* the data segment of the handshake scenario: it follows an answered SYN
AfterHandshake == Replied /\ handshake # None

\* C3: after a SYN (sequence S) answered by a SYN-ACK (sequence T), the PSH+ACK with
\* acknowledgement T+1, sequence S+1, empty payload and no dispatcher response is
\* answered with flags exactly {ACK}, acknowledgement S+1 and sequence T+1, all
\* modulo 2^32.
C3_DataAfterHandshake ==
    (AfterHandshake /\ tcp_req.payload = <<>> /\ ~(dispatched /\ proto_ret # None))
        => /\ ret = "Some"
           /\ tcp_repl # None
           /\ unwrap(tcp_repl).flags = {"ACK"}
           /\ unwrap(tcp_repl).acknowledgement = wrapping_add(unwrap(handshake).S, 1)
           /\ unwrap(tcp_repl).sequence = wrapping_add(unwrap(handshake).T, 1)

\* C3 witness: the token was 0xFFFFFFFF, so the client acknowledged 0.
C3_Witness ==
    /\ AfterHandshake
    /\ unwrap(handshake).T = <<Two16 - 1, Two16 - 1>>
    /\ tcp_req.acknowledgement = <<0, 0>>
    /\ tcp_req.payload = <<>>
    /\ dispatched
    /\ proto_ret = None
    /\ ret = "Some"

\* C4: in the data branch an acknowledgement number of 0 expects the token
\* 0xFFFFFFFF: the segment is accepted exactly when the token is 0xFFFFFFFF, a
\* rejected one is dropped without a fault, and the verified token stored is 0xFFFFFFFF.
C4_AckZeroExpectsMax ==
    (Replied /\ PshAckSet /\ tcp_req.acknowledgement = <<0, 0>>)
        => /\ dispatched <=> (Token = Ok(<<Two16 - 1, Two16 - 1>>))
           /\ ~dispatched => ret = "None"
           /\ dispatched => client_info.cookie = Some(<<Two16 - 1, Two16 - 1>>)

\* C4 witness: an acknowledgement number of 0 was accepted and answered.
C4_Witness ==
    /\ Replied
    /\ PshAckSet
    /\ tcp_req.acknowledgement = <<0, 0>>
    /\ dispatched
    /\ ret = "Some"

\* C5: a segment with RST set, or FIN and ACK both set, and not PSH and ACK both set,
\* gets no outbound segment, whatever other flag bits are set (SYN included).
C5_TeardownSilent ==
    (Replied /\ ~PshAckSet
       /\ ("RST" \in tcp_req.flags \/ {"FIN", "ACK"} \subseteq tcp_req.flags))
        => tcp_repl = None

\* C6: a segment whose flags are exactly ACK, exactly RST or exactly FIN+ACK gets no
\* outbound segment, for every sequence number, acknowledgement number and payload.
C6_ExactFlagsSilent ==
    (Replied /\ tcp_req.flags \in {{"ACK"}, {"RST"}, {"FIN", "ACK"}})
        => (ret = "None" /\ tcp_repl = None)

\* C6 witness: a pure ACK that carries a valid token + 1 and a payload was dropped.
C6_Witness ==
    /\ Replied
    /\ tcp_req.flags = {"ACK"}
    /\ Token = Ok(ExpectedToken)
    /\ tcp_req.payload # <<>>
    /\ ret = "None"

\* C7: in the data branch with a verified token, the flags and payload of the
\* outbound segment follow the dispatcher result only: bytes give flags exactly
\* {ACK, PSH} and those bytes as payload, nothing gives flags exactly {ACK} and an
\* empty payload.
C7_DispatcherSelectsReply ==
    (Replied /\ PshAckSet /\ Token = Ok(ExpectedToken) /\ ret # "panic")
        => /\ dispatched
           /\ ret = "Some"
           /\ tcp_repl # None
           /\ proto_ret # None =>
                 /\ unwrap(tcp_repl).flags = {"ACK", "PSH"}
                 /\ unwrap(tcp_repl).payload = unwrap(proto_ret)
           /\ proto_ret = None =>
                 /\ unwrap(tcp_repl).flags = {"ACK"}
                 /\ unwrap(tcp_repl).payload = <<>>

\* C7 witness: the dispatcher returned bytes for a segment that has more flags than
\* PSH and ACK, and the reply carries them.
C7_Witness ==
    /\ Replied
    /\ PshAckSet
    /\ "URG" \in tcp_req.flags
    /\ ret = "Some"
    /\ proto_ret # None
    /\ unwrap(proto_ret) # <<>>
    /\ unwrap(tcp_repl).payload = unwrap(proto_ret)

\* C8: the response arithmetic is total over the 32-bit sequence space: a handshake
\* reply carries acknowledgement (S+1) mod 2^32, a data reply acknowledgement
\* (S+L) mod 2^32 and the inbound acknowledgement number as sequence, and no input
\* makes the computation fault instead of producing the reply.
C8_ArithmeticTotal ==
    /\ (Replied /\ branch = "syn")
          => /\ ret = "Some"
             /\ tcp_repl # None
             /\ unwrap(tcp_repl).acknowledgement = wrapping_add(tcp_req.sequence, 1)
    /\ (Replied /\ branch = "data" /\ dispatched)
          => /\ ret = "Some"
             /\ tcp_repl # None
             /\ unwrap(tcp_repl).acknowledgement =
                    wrapping_add(tcp_req.sequence, Len(tcp_req.payload))
             /\ unwrap(tcp_repl).sequence = tcp_req.acknowledgement

\* C9: every outbound segment has source port = the record's destination port and
\* destination port = the record's source port, as the record is after the upper
\* layer ran: rewritten ports are followed, otherwise the inbound ports are swapped.
C9_PortsFromRecord ==
    (Replied /\ ret = "Some")
        => /\ tcp_repl # None
           /\ Some(unwrap(tcp_repl).source) = client_info.port.dst
           /\ Some(unwrap(tcp_repl).destination) = client_info.port.src
           /\ (dispatched /\ proto_ret # None /\ client_info.port = RedirectPorts)
                 => /\ Some(unwrap(tcp_repl).source) = RedirectPorts.dst
                    /\ Some(unwrap(tcp_repl).destination) = RedirectPorts.src
           /\ client_info.port # RedirectPorts
                 => /\ unwrap(tcp_repl).source = tcp_req.destination
                    /\ unwrap(tcp_repl).destination = tcp_req.source

\* C9 witness: the upper layer rewrote the ports and the reply follows the record.
C9_Witness ==
    /\ Replied
    /\ ret = "Some"
    /\ dispatched
    /\ client_info.port = RedirectPorts
    /\ Some(unwrap(tcp_repl).source) = RedirectPorts.dst
    /\ unwrap(tcp_repl).source # tcp_req.destination

ReplyFlagValues == {{"SYN", "ACK"}, {"ACK", "PSH"}, {"ACK"}}

\* C10, as stated: every outbound segment has data offset 5, window 65535, flags set
\* exactly once in its branch, and final flags exactly {SYN,ACK}, {ACK,PSH} or {ACK}.
C10_FlagsSetOnce ==
    (Replied /\ ret = "Some")
        => /\ unwrap(tcp_repl).data_offset = 5
           /\ unwrap(tcp_repl).window = 65535
           /\ Len(flag_writes) = 1
           /\ unwrap(tcp_repl).flags \in ReplyFlagValues

\* C10, amended: every outbound segment has data offset 5, window 65535 and final
\* flags exactly {SYN,ACK}, {ACK,PSH} or {ACK}; the flags are set once in the data
\* branch and twice in the handshake branch (ACK, then SYN|ACK, which replaces it).
C10_FlagsSetPerBranch ==
    (Replied /\ ret = "Some")
        => /\ unwrap(tcp_repl).data_offset = 5
           /\ unwrap(tcp_repl).window = 65535
           /\ branch \in {"data", "syn"}
           /\ branch = "data" => Len(flag_writes) = 1
           /\ branch = "syn" => flag_writes = <<{"ACK"}, {"SYN", "ACK"}>>
           /\ unwrap(tcp_repl).flags = flag_writes[Len(flag_writes)]
           /\ unwrap(tcp_repl).flags \in ReplyFlagValues

\* C10 witness: a SYN-ACK, whose flags were written twice.
C10_Witness ==
    /\ Replied
    /\ ret = "Some"
    /\ branch = "syn"
    /\ Len(flag_writes) = 2
    /\ unwrap(tcp_repl).flags = {"SYN", "ACK"}

-----------------------------------------------------------------------------
(* C11: history independence *)

\* the call at hand handles the segment the first call of the run handled, for the same peer
SameAsFirst ==
    /\ first # None
    /\ tcp_req = unwrap(first).req
    /\ client_info.ip = unwrap(first).record_in.ip

\* the upper layer answered the call at hand as it answered the first call
SameUpperLayer ==
    /\ proto_ret = unwrap(first).proto_ret
    /\ client_info.port = unwrap(first).client_info.port

\* C11: whatever segments were processed in between, a segment gets the outcome it got
\* when it was the first of the run: the same branch, the same decision to dispatch and,
\* the upper layer answering alike, the same result, segment and record.  A PSH+ACK with
\* the valid token is accepted on a connection no SYN was ever processed for, and one
\* with an invalid token is rejected on a connection a SYN-ACK was issued for.
C11_HistoryIndependent ==
    Replied =>
        /\ SameAsFirst =>
              /\ branch = unwrap(first).branch
              /\ dispatched = unwrap(first).dispatched
              /\ SameUpperLayer =>
                    /\ ret = unwrap(first).ret
                    /\ tcp_repl = unwrap(first).tcp_repl
                    /\ client_info = unwrap(first).client_info
        /\ (PshAckSet /\ Token = Ok(ExpectedToken) /\ tcp_req.source \notin seen.syn)
              => dispatched
        /\ (PshAckSet /\ Token.ok /\ Token.val # ExpectedToken
                /\ tcp_req.source \in seen.synack)
              => (ret = "None" /\ tcp_repl = None /\ ~dispatched)

\* a data segment accepted as the first of the run is accepted alike after a SYN of its
\* connection was answered in between
C11_Witness ==
    /\ Replied
    /\ SameAsFirst
    /\ SameUpperLayer
    /\ unwrap(first).branch = "data"
    /\ tcp_req.source \in seen.synack
    /\ dispatched
    /\ ret = "Some"

-----------------------------------------------------------------------------
(* C12: parallel workers *)

\* the call of worker w run alone, start to end, on what w was handed
Sequential(w) ==
    repl(workers[w].req, masscanned, workers[w].record_in, workers[w].d, overflow_checks)

Finished(w) == workers[w].pc = "done"

\* C12: however the steps of the workers interleave, a worker ends with the result, the
\* outbound segment and the record of a sequential run of its call, and the responder
\* identity keeps its key.
C12_InterleavingsAgree ==
    /\ masscanned.synack_key \in Keys
    /\ \A w \in DOMAIN workers :
          Finished(w) =>
              /\ workers[w].ret = Sequential(w).ret
              /\ workers[w].tcp_repl = Sequential(w).tcp_repl
              /\ workers[w].client_info = Sequential(w).client_info
              /\ workers[w].dispatched = Sequential(w).dispatched

\* two calls that overlapped, one answering data and one answering a SYN
C12_Witness ==
    /\ workers # NoWorkers
    /\ \A w \in WorkerIds : Finished(w) /\ workers[w].overlapped /\ workers[w].ret = "Some"
    /\ workers[1].branch = "data"
    /\ workers[2].branch = "syn"

-----------------------------------------------------------------------------
(* C16: a failed token generation in the handshake branch *)

\* the token service, asked for the connection of the segment of worker w
WorkerToken(w) ==
    generate(fill_ports(workers[w].record_in, workers[w].req), masscanned.synack_key)

\* worker w ran into a failed generation in the handshake branch
SynAborted(w) ==
    /\ Finished(w)
    /\ workers[w].req.flags = {"SYN"}
    /\ ~WorkerToken(w).ok

-----------------------------------------------------------------------------
(* C13 to C20 *)

\* C13: the identical rejected segment is never answered, however often it is processed,
\* and the identical SYN is answered every time, by a segment with the sequence number
\* (the token) and the acknowledgement number of the first answer.
C13_ReplayIdempotent ==
    (Replied /\ SameAsFirst) =>
        /\ unwrap(first).ret = "None" => tcp_repl = None
        /\ unwrap(first).branch = "syn" =>
              /\ tcp_repl # None
              /\ unwrap(first).tcp_repl # None
              /\ unwrap(tcp_repl).sequence = unwrap(unwrap(first).tcp_repl).sequence
              /\ unwrap(tcp_repl).acknowledgement
                   = unwrap(unwrap(first).tcp_repl).acknowledgement

\* C14: when the token cannot be generated the call ends without an outbound segment,
\* in the data branch as in the handshake branch, and a PSH+ACK is not handed to the
\* dispatcher.
C14_GenerationFailureAborts ==
    (Replied /\ ~Token.ok /\ (PshAckSet \/ branch = "syn")) =>
        /\ tcp_repl = None
        /\ ~dispatched

\* the segment at hand is refused for its token
InvalidToken == PshAckSet /\ Token.ok /\ Token.val # ExpectedToken

\* C15: a segment with an invalid token, a pure ACK, a teardown segment and every
\* segment matching no row (no PSH+ACK, no SYN) ends in "no reply", never in a fault.
C15_RejectionIsNoReply ==
    (Replied /\ (InvalidToken \/ (~PshAckSet /\ "SYN" \notin tcp_req.flags))) =>
        /\ ret = "None"
        /\ tcp_repl = None

\* a FIN alone, one of the segments matching no row
C15_Witness ==
    /\ Replied
    /\ tcp_req.flags = {"FIN"}
    /\ ret = "None"
    /\ branch = "unhandled"

SegmentPorts == [src |-> Some(tcp_req.source), dst |-> Some(tcp_req.destination)]

\* C17: after every call, the ones without a reply included, the record holds the
\* ports of the segment (or what the dispatcher put there); the token that was checked
\* or sent is the one of the segment's ports, whatever ports the record came with; the
\* cookie of the record is changed only by the data branch, to the token that matched.
C17_RecordSideEffects ==
    Replied =>
        /\ ~dispatched => client_info.port = SegmentPorts
        /\ dispatched => client_info.port \in {SegmentPorts, RedirectPorts}
        /\ PshAckSet => (dispatched <=> Token = Ok(ExpectedToken))
        /\ (branch = "syn" /\ tcp_repl # None) => unwrap(tcp_repl).sequence = Token.val
        /\ client_info.cookie # record_in.cookie =>
              /\ PshAckSet
              /\ Token = Ok(ExpectedToken)
              /\ client_info.cookie = Some(ExpectedToken)

\* a record that came with other ports, and the data segment was accepted
C17_Witness ==
    /\ Replied
    /\ record_in.port = StalePorts
    /\ PshAckSet
    /\ dispatched
    /\ client_info.cookie = Some(ExpectedToken)
    /\ ret = "Some"

\* C18: a segment with PSH and ACK set is handled by the data branch whatever other
\* bits it has: never a SYN-ACK; with the valid token a data reply, with an invalid
\* token no reply.
C18_PshAckIsData ==
    (Replied /\ PshAckSet) =>
        /\ branch = "data"
        /\ tcp_repl # None => unwrap(tcp_repl).flags # {"SYN", "ACK"}
        /\ Token = Ok(ExpectedToken) =>
              /\ tcp_repl # None
              /\ unwrap(tcp_repl).flags \in {{"ACK"}, {"ACK", "PSH"}}
        /\ InvalidToken => tcp_repl = None

\* C19: the handshake branch and every call without a reply leave the cookie of the
\* record as it came; a SYN-ACK does not store its token.
C19_CookieFrame ==
    (Replied /\ (~PshAckSet \/ ret = "None")) =>
        /\ client_info.cookie = record_in.cookie
        /\ tcp_repl # None => client_info.cookie # Some(unwrap(tcp_repl).sequence)

\* a SYN-ACK was issued and the record has no cookie
C19_Witness ==
    /\ Replied
    /\ branch = "syn"
    /\ ret = "Some"
    /\ unwrap(tcp_repl).sequence = Token.val
    /\ client_info.cookie = None

\* C20: an outbound segment answers a PSH+ACK or a segment with SYN; a SYN-ACK has no
\* payload; an outbound segment with payload has flags exactly {ACK, PSH} and answers
\* a PSH+ACK.
C20_ReplyOrigins ==
    (Replied /\ tcp_repl # None) =>
        /\ branch \in {"syn", "data"}
        /\ PshAckSet \/ "SYN" \in tcp_req.flags
        /\ unwrap(tcp_repl).flags = {"SYN", "ACK"} => unwrap(tcp_repl).payload = <<>>
        /\ unwrap(tcp_repl).payload # <<>> =>
              /\ unwrap(tcp_repl).flags = {"ACK", "PSH"}
              /\ PshAckSet

\* a data reply carrying the bytes of the upper layer
C20_Witness ==
    /\ Replied
    /\ tcp_repl # None
    /\ unwrap(tcp_repl).payload # <<>>
    /\ PshAckSet
    /\ "SYN" \in tcp_req.flags

====
